---- MODULE Spec2Model ----
(***************************************************************************)
(* Model of be_great/great.py: the GReaT orchestrator (fit, sample,        *)
(* great_sample, save, load_from_dir) and its start-sampler selection.     *)
(* The tokenizer, the language model and the trainer are external; the     *)
(* generator is modelled as an arbitrary choice of output texts.           *)
(***************************************************************************)
EXTENDS Integers, Sequences, FiniteSets

VARIABLES self, disk, saved_self, pc, call, outcome, error, great_start,
          df_gen, draws, gens, valid_seen, generated_data, ext_log, result

vars == <<self, disk, saved_self, pc, call, outcome, error, great_start,
          df_gen, draws, gens, valid_seen, generated_data, ext_log, result>>

(***************************************************************************)
(* Bounds of the model.                                                    *)
(***************************************************************************)
MaxSamples == 2      \* largest n_samples tried
MaxPrompts == 2      \* longest list of prompts given to great_sample
CounterCap == 1      \* draws and gens count up to here and then saturate

(***************************************************************************)
(* Python values.  Scalars carry their type and their literal, containers  *)
(* their type and their items, so that 0 and "0" are different values.     *)
(***************************************************************************)
PyNone == [t |-> "NoneType", v |-> ""]
PyStr(s) == [t |-> "str", v |-> s]
PyInt(s) == [t |-> "int", v |-> s]
PyFloat(s) == [t |-> "float", v |-> s]
Item(k, x) == [key |-> k, val |-> x]
Dict(items) == [t |-> "dict", items |-> items]
List(items) == [t |-> "list", items |-> items]
PySet(items) == [t |-> "set", items |-> items]

IsContainer(x) == x.t \in {"dict", "list", "ndarray", "set"}

\* Python truth value of x, as used by `if x` and `x if x else y`.
Truthy(x) ==
    IF x.t = "NoneType" THEN FALSE
    ELSE IF x.t = "str" THEN x.v # ""
    ELSE IF x.t = "int" THEN x.v # "0"
    ELSE IF x.t = "float" THEN x.v # "0.0"
    ELSE Len(x.items) > 0

StrSeq(names) == [i \in 1..Len(names) |-> PyStr(names[i])]

(***************************************************************************)
(* The tables handed to fit.                                               *)
(***************************************************************************)
TableA ==
    [columns |-> <<"age", "sex", "income">>,
     dtypes  |-> <<"int64", "object", "float64">>,
     rows    |-> << <<PyInt("30"), PyStr("M"), PyFloat("50000.0")>>,
                    <<PyInt("40"), PyStr("F"), PyFloat("10000.0")>> >>]

TableB ==
    [columns |-> <<"height", "label">>,
     dtypes  |-> <<"float64", "int64">>,
     rows    |-> << <<PyFloat("1.5"), PyInt("0")>>,
                    <<PyFloat("1.5"), PyInt("1")>> >>]

Tables == {TableA, TableB}

\* conditional_col arguments tried with fit
ConditionalColArgs ==
    {PyNone, PyStr("sex"), PyInt("5")}

\* position of a column name in a sequence of names, 0 when absent
ColIndex(columns, name) ==
    IF \E i \in 1..Len(columns) : columns[i] = name
    THEN CHOOSE i \in 1..Len(columns) :
            columns[i] = name /\ \A j \in 1..(i-1) : columns[j] # name
    ELSE 0

\* df.columns.to_list()
ColumnsToList(df) == List(StrSeq(df.columns))

\* df.select_dtypes(include=np.number).columns.to_list()
NumericColumnsToList(df) ==
    LET numeric == {i \in 1..Len(df.columns) : df.dtypes[i] \in {"int64", "float64"}}
        F[i \in 0..Len(df.columns)] ==
            IF i = 0 THEN <<>>
            ELSE IF i \in numeric THEN Append(F[i-1], PyStr(df.columns[i]))
            ELSE F[i-1]
    IN List(F[Len(df.columns)])

\* the values of one column, top to bottom
ColumnValues(df, name) ==
    LET c == ColIndex(df.columns, name)
    IN IF c = 0 THEN <<>> ELSE [r \in 1..Len(df.rows) |-> df.rows[r][c]]

\* relative frequency c/n as the float Python prints
Frequency(c, n) ==
    IF c = n THEN PyFloat("1.0")
    ELSE IF 2 * c = n THEN PyFloat("0.5")
    ELSE PyFloat("other")

\* distinct values in order of first appearance, each with its frequency
ValueCounts(values) ==
    LET n == Len(values)
        first == {i \in 1..n : \A j \in 1..(i-1) : values[j] # values[i]}
        count(x) == Cardinality({i \in 1..n : values[i] = x})
        F[i \in 0..n] ==
            IF i = 0 THEN <<>>
            ELSE IF i \in first
                 THEN Append(F[i-1], Item(values[i], Frequency(count(values[i]), n)))
                 ELSE F[i-1]
    IN F[n]

\* _get_column_distribution: the observed values of a continuous column,
\* the category -> probability mapping of any other column
GetColumnDistribution(df, name) ==
    LET c == ColIndex(df.columns, name)
    IN IF c # 0 /\ df.dtypes[c] = "float64"
       THEN List(ColumnValues(df, name))
       ELSE Dict(ValueCounts(ColumnValues(df, name)))

(***************************************************************************)
(* Generated text and its decoding.  A text is the sequence of its         *)
(* comma-separated segments, a segment the sequence of its parts around    *)
(* " is ": <<"age", "30">> is "age is 30", <<"garbage">> has no " is ".    *)
(***************************************************************************)
TextFullA == << <<"age", "30">>, <<"sex", "M">>, <<"income", "50000">> >>
TextBadNumA == << <<"age", "abc">>, <<"sex", "M">>, <<"income", "50000">> >>
TextShortA == << <<"income", "50000">>, <<"age", "30">> >>
TextGarbage == << <<"garbage">> >>

\* what the generator may emit for one prompt
Texts == {TextFullA, TextBadNumA, TextShortA, TextGarbage}

\* the strings pd.to_numeric parses to a number
NumericLiterals == {"30", "40", "50000", "10000", "1.5", "0", "1"}

\* decode(text): the value of each known column, None where the text has
\* no well-formed segment for it; other segments are dropped
DecodeText(text, columns) ==
    [c \in 1..Len(columns) |->
        LET hits == {i \in 1..Len(text) : Len(text[i]) = 2 /\ text[i][1] = columns[c]}
        IN IF hits = {} THEN PyNone
           ELSE PyStr(text[CHOOSE i \in hits : \A j \in hits : i <= j][2])]

\* _convert_text_to_tabular_data: one decoded row appended per text
ConvertTextToTabularData(texts, df) ==
    [df EXCEPT !.rows = df.rows \o [i \in 1..Len(texts) |-> DecodeText(texts[i], df.columns)]]

\* pd.DataFrame(columns=columns): an empty frame
EmptyFrame(columns) ==
    [columns |-> IF columns.t = "list"
                 THEN [i \in 1..Len(columns.items) |-> columns.items[i].v]
                 ELSE <<>>,
     rows |-> <<>>]

\* pd.to_numeric(x, errors='coerce').notnull()
ToNumericNotNull(x) == x.t = "str" /\ x.v \in NumericLiterals

\* line 132, for one numeric column
KeepNumeric(df, name) ==
    LET c == ColIndex(df.columns, name)
    IN [df EXCEPT !.rows = SelectSeq(df.rows, LAMBDA r : ToNumericNotNull(r[c]))]

\* lines 131-132: the frame filtered by each numeric column in turn
RECURSIVE RemoveFlawedNumeric(_, _)
RemoveFlawedNumeric(df, num_cols) ==
    IF num_cols = <<>> THEN df
    ELSE RemoveFlawedNumeric(KeepNumeric(df, Head(num_cols).v), Tail(num_cols))

\* line 135 left out: no row is dropped for a missing value
RemoveMissingSkipped(df) == df

\* line 135: rows with a missing value are dropped
RemoveMissing(df) ==
    [df EXCEPT !.rows = SelectSeq(df.rows,
        LAMBDA r : \A c \in 1..Len(df.columns) : r[c] # PyNone)]

\* line 118: the quota loop's condition
LoopContinues(n_samples, df) == n_samples > Len(df.rows)

\* line 142 without head(): the whole frame is returned
HeadRowsUntruncated(df, n_samples) == df

\* line 142: df_gen.head(n_samples), n_samples >= 0
HeadRows(df, n_samples) ==
    [df EXCEPT !.rows = SubSeq(df.rows, 1,
        IF n_samples < Len(df.rows) THEN n_samples ELSE Len(df.rows))]

(***************************************************************************)
(* JSON, as json.dump writes it and json.load reads it back.               *)
(***************************************************************************)
\* a scalar's JSON text: null, a string, an integer or a real literal
JsonDumpScalar(x) ==
    IF x.t = "NoneType" THEN [j |-> "null", v |-> ""]
    ELSE IF x.t = "str" THEN [j |-> "string", v |-> x.v]
    ELSE IF x.t = "int" THEN [j |-> "int", v |-> x.v]
    ELSE [j |-> "real", v |-> x.v]

\* an object's keys are strings: a non-string key is written as its literal
JsonKey(k) == IF k.t = "NoneType" THEN "null" ELSE k.v

JsonDump(x) ==
    IF x.t = "dict"
    THEN [j |-> "object",
          items |-> [i \in 1..Len(x.items) |->
                        Item(JsonKey(x.items[i].key), JsonDumpScalar(x.items[i].val))]]
    ELSE IF x.t = "list"
    THEN [j |-> "array",
          items |-> [i \in 1..Len(x.items) |-> JsonDumpScalar(x.items[i])]]
    ELSE JsonDumpScalar(x)

JsonLoadScalar(y) ==
    IF y.j = "null" THEN PyNone
    ELSE IF y.j = "string" THEN PyStr(y.v)
    ELSE IF y.j = "int" THEN PyInt(y.v)
    ELSE PyFloat(y.v)

\* an object read back: string keys; of a repeated key the first position
\* and the last value are kept
JsonLoadObject(items) ==
    LET n == Len(items)
        last(i) == CHOOSE m \in i..n :
                      /\ items[m].key = items[i].key
                      /\ \A l \in (m+1)..n : items[l].key # items[i].key
        F[i \in 0..n] ==
            IF i = 0 THEN <<>>
            ELSE IF \E h \in 1..(i-1) : items[h].key = items[i].key
                 THEN F[i-1]
                 ELSE Append(F[i-1],
                             Item(PyStr(items[i].key), JsonLoadScalar(items[last(i)].val)))
    IN F[n]

JsonLoad(y) ==
    IF y.j = "object" THEN Dict(JsonLoadObject(y.items))
    ELSE IF y.j = "array"
    THEN List([i \in 1..Len(y.items) |-> JsonLoadScalar(y.items[i])])
    ELSE JsonLoadScalar(y)

\* lines 189-197: the attributes written to config.json; an ndarray
\* distribution becomes a list first
SaveAttributes(s) ==
    LET attributes ==
            [s EXCEPT !.conditional_col_dist =
                IF @.t = "ndarray" THEN List(@.items) ELSE @]
    IN [f \in DOMAIN attributes |-> JsonDump(attributes[f])]

\* lines 216-224: every attribute of config.json set on the new instance
LoadAttributes(config) == [f \in DOMAIN config |-> JsonLoad(config[f])]

NoDir == [exists |-> FALSE, config |-> <<>>]

(***************************************************************************)
(* The instance and its operations.                                        *)
(***************************************************************************)
\* lines 50-53: the fields after __init__
NewInstance ==
    [columns |-> PyNone, num_cols |-> PyNone,
     conditional_col |-> PyNone, conditional_col_dist |-> PyNone]

\* lines 231-234
UpdateColumnInformation(s, df) ==
    [s EXCEPT !.columns = ColumnsToList(df), !.num_cols = NumericColumnsToList(df)]

\* lines 237-238 alone: the membership assertion of lines 239-240 left out
ConditionalColTypeOnly(df, conditional_col) ==
    conditional_col = PyNone \/ conditional_col.t = "str"

\* lines 237-240: the two assertions on conditional_col
ConditionalColAccepted(df, conditional_col) ==
    /\ conditional_col = PyNone \/ conditional_col.t = "str"
    /\ conditional_col = PyNone \/ ColIndex(df.columns, conditional_col.v) # 0

\* lines 243-244
UpdateConditionalInformation(s, df, conditional_col) ==
    LET col == IF Truthy(conditional_col) THEN conditional_col
               ELSE PyStr(df.columns[Len(df.columns)])
    IN [s EXCEPT !.conditional_col = col,
                 !.conditional_col_dist = GetColumnDistribution(df, col.v)]

NoSampler ==
    [kind |-> "none", start_col |-> PyNone, dist |-> PyNone, all_columns |-> PyNone]

\* lines 248-256 without the check of lines 250-251
StartArgsErrorNoDistCheck(start_col, start_col_dist) ==
    IF Truthy(start_col) /\ start_col_dist = PyNone THEN "ValueError"
    ELSE IF ~(start_col = PyNone \/ start_col.t = "str") THEN "AssertionError"
    ELSE IF ~(start_col_dist = PyNone \/ start_col_dist.t \in {"dict", "list"})
    THEN "AssertionError"
    ELSE ""

\* lines 248-256: the error the argument checks raise, "" when they pass
StartArgsError(start_col, start_col_dist) ==
    IF Truthy(start_col) /\ start_col_dist = PyNone THEN "ValueError"
    ELSE IF start_col_dist # PyNone /\ ~Truthy(start_col) THEN "ValueError"
    ELSE IF ~(start_col = PyNone \/ start_col.t = "str") THEN "AssertionError"
    ELSE IF ~(start_col_dist = PyNone \/ start_col_dist.t \in {"dict", "list"})
    THEN "AssertionError"
    ELSE ""

\* line 258
EffectiveStartCol(s, start_col) ==
    IF Truthy(start_col) THEN start_col ELSE s.conditional_col

\* line 259
EffectiveStartDist(s, start_col_dist) ==
    IF Truthy(start_col_dist) THEN start_col_dist ELSE s.conditional_col_dist

\* lines 261-266 without the list branch of lines 263-264
ChooseStartNoListBranch(s, start_col, start_col_dist) ==
    IF start_col_dist.t = "dict"
    THEN [kind |-> "CategoricalStart", start_col |-> start_col,
          dist |-> start_col_dist, all_columns |-> PyNone]
    ELSE [kind |-> "RandomStart", start_col |-> PyNone,
          dist |-> PyNone, all_columns |-> s.columns]

\* lines 261-266: the sampler variant chosen by the distribution's type
ChooseStart(s, start_col, start_col_dist) ==
    IF start_col_dist.t = "dict"
    THEN [kind |-> "CategoricalStart", start_col |-> start_col,
          dist |-> start_col_dist, all_columns |-> PyNone]
    ELSE IF start_col_dist.t = "list"
    THEN [kind |-> "ContinuousStart", start_col |-> start_col,
          dist |-> start_col_dist, all_columns |-> PyNone]
    ELSE [kind |-> "RandomStart", start_col |-> PyNone,
          dist |-> PyNone, all_columns |-> s.columns]

\* lines 246-266
GetStartSampler(s, start_col, start_col_dist) ==
    LET err == StartArgsError(start_col, start_col_dist)
    IN IF err # "" THEN [error |-> err, sampler |-> NoSampler]
       ELSE [error |-> "",
             sampler |-> ChooseStart(s, EffectiveStartCol(s, start_col),
                                     EffectiveStartDist(s, start_col_dist))]

\* lines 258-259 assigning to the instance instead of the locals
SelfAfterGetStartSamplerStored(s, start_col, start_col_dist) ==
    [s EXCEPT !.conditional_col = EffectiveStartCol(s, start_col),
              !.conditional_col_dist = EffectiveStartDist(s, start_col_dist)]

\* lines 107, 258-259: building the sampler rebinds locals only
SelfAfterGetStartSampler(s, start_col, start_col_dist) == s

\* get_start_tokens can draw only from a non-empty population
CanDraw(sampler) ==
    IF sampler.kind \in {"CategoricalStart", "ContinuousStart"}
    THEN Len(sampler.dist.items) > 0
    ELSE sampler.kind = "RandomStart" /\ sampler.all_columns.t = "list"
         /\ Len(sampler.all_columns.items) > 0

\* line 159 without the isinstance test: whatever is given is wrapped
NormalizePromptsAlwaysWrapped(starting_prompts) == <<starting_prompts>>

\* line 159: a single string is one prompt
NormalizePrompts(starting_prompts) ==
    IF starting_prompts.t = "str" THEN <<starting_prompts>>
    ELSE starting_prompts.items

(***************************************************************************)
(* Arguments tried by the callers.                                         *)
(***************************************************************************)
StartColArgs == {PyNone, PyStr(""), PyStr("age")}

StartDistArgs ==
    {PyNone, Dict(<<>>),
     Dict(<<Item(PyInt("30"), PyFloat("1.0"))>>),
     List(<<PyFloat("1.5")>>),
     PySet(<<PyInt("30")>>)}

\* the sampling batch sizes k tried
BatchSizes == {1, 2}

Prompts == {PyStr("age is"), PyStr("sex is F")}

\* the lists of prompts tried: "age is", "sex is F", "age is", ... cut at
\* every length up to MaxPrompts
PromptLists ==
    {List([i \in 1..m |-> IF i % 2 = 1 THEN PyStr("age is") ELSE PyStr("sex is F")]) :
        m \in 0..MaxPrompts}

PromptArgs == Prompts \cup PromptLists

NoCall ==
    [op |-> "none", data |-> EmptyFrame(PyNone), conditional_col |-> PyNone,
     n_samples |-> 0, start_col |-> PyNone, start_col_dist |-> PyNone, k |-> 0,
     starting_prompts |-> PyNone]

ExternalCall(fn, input) == [fn |-> fn, input |-> input]

\* a counter that stops at CounterCap
Bump(c) == IF c < CounterCap THEN c + 1 ELSE c

\* what every operation clears of the previous one's trace
ClearSampling ==
    /\ great_start' = NoSampler
    /\ df_gen' = EmptyFrame(PyNone)
    /\ draws' = 0
    /\ gens' = 0
    /\ valid_seen' = FALSE
    /\ generated_data' = <<>>

\* a decoded row passes the filters of lines 131-135
RowAccepted(row, columns, num_cols) ==
    /\ \A c \in 1..Len(columns) : row[c] # PyNone
    /\ \A i \in 1..Len(num_cols) :
          LET c == ColIndex(columns, num_cols[i].v)
          IN c # 0 /\ row[c].t = "str" /\ row[c].v \in NumericLiterals

Init ==
    /\ self = NewInstance
    /\ disk = NoDir
    /\ saved_self = NewInstance
    /\ pc = "idle"
    /\ call = NoCall
    /\ outcome = "none"
    /\ error = ""
    /\ great_start = NoSampler
    /\ df_gen = EmptyFrame(PyNone)
    /\ draws = 0
    /\ gens = 0
    /\ valid_seen = FALSE
    /\ generated_data = <<>>
    /\ ext_log = <<>>
    /\ result = EmptyFrame(PyNone)

\* lines 66-87: fit(data, conditional_col=conditional_col)
Fit ==
    /\ pc = "idle"
    /\ \E df \in Tables, conditional_col \in ConditionalColArgs :
          LET s1 == UpdateColumnInformation(self, df)
          IN /\ call' = [NoCall EXCEPT !.op = "fit", !.data = df,
                                       !.conditional_col = conditional_col]
             /\ IF ConditionalColAccepted(df, conditional_col)
                THEN /\ self' = UpdateConditionalInformation(s1, df, conditional_col)
                     /\ ext_log' = <<ExternalCall("GReaTDataset.from_pandas", PyNone),
                                     ExternalCall("GReaTTrainer.train", PyNone)>>
                     /\ outcome' = "returned"
                     /\ error' = ""
                ELSE /\ self' = s1
                     /\ ext_log' = <<>>
                     /\ outcome' = "raised"
                     /\ error' = "AssertionError"
    /\ ClearSampling
    /\ result' = EmptyFrame(PyNone)
    /\ UNCHANGED <<disk, saved_self, pc>>

\* lines 107-117: sample(n_samples, start_col, start_col_dist, k=k) up to
\* the head of the quota loop
SampleCall ==
    /\ pc = "idle"
    /\ \E n_samples \in 0..MaxSamples, k \in BatchSizes,
          start_col \in StartColArgs, start_col_dist \in StartDistArgs :
          LET g == GetStartSampler(self, start_col, start_col_dist)
          IN /\ call' = [NoCall EXCEPT !.op = "sample", !.n_samples = n_samples,
                                       !.start_col = start_col,
                                       !.start_col_dist = start_col_dist, !.k = k]
             /\ self' = SelfAfterGetStartSampler(self, start_col, start_col_dist)
             /\ great_start' = g.sampler
             /\ error' = g.error
             /\ IF g.error # ""
                THEN /\ pc' = "idle"
                     /\ outcome' = "raised"
                     /\ df_gen' = EmptyFrame(PyNone)
                ELSE /\ pc' = "sample_loop"
                     /\ outcome' = "none"
                     /\ df_gen' = EmptyFrame(self.columns)
    /\ draws' = 0
    /\ gens' = 0
    /\ valid_seen' = FALSE
    /\ generated_data' = <<>>
    /\ ext_log' = <<>>
    /\ result' = EmptyFrame(PyNone)
    /\ UNCHANGED <<disk, saved_self>>

\* lines 118-139: one pass of the quota loop
SampleIteration ==
    /\ pc = "sample_loop"
    /\ LoopContinues(call.n_samples, df_gen)
    /\ IF ~CanDraw(great_start)
       THEN \* get_start_tokens raises
            /\ pc' = "idle"
            /\ outcome' = "raised"
            /\ error' = "get_start_tokens"
            /\ UNCHANGED <<df_gen, draws, gens, valid_seen>>
       ELSE \E texts \in [1..call.k -> Texts] :
               LET decoded == ConvertTextToTabularData(texts, df_gen)
               IN /\ draws' = Bump(draws)
                  /\ gens' = Bump(gens)
                  /\ IF self.num_cols.t # "list"
                     THEN \* line 131 iterates None
                          /\ pc' = "idle"
                          /\ outcome' = "raised"
                          /\ error' = "TypeError"
                          /\ df_gen' = decoded
                          /\ UNCHANGED valid_seen
                     ELSE /\ df_gen' = RemoveMissing(
                                          RemoveFlawedNumeric(decoded, self.num_cols.items))
                          /\ valid_seen' =
                                (valid_seen \/ \E i \in 1..Len(texts) :
                                    RowAccepted(DecodeText(texts[i], df_gen.columns),
                                                df_gen.columns, self.num_cols.items))
                          /\ UNCHANGED <<pc, outcome, error>>
    /\ UNCHANGED <<self, disk, saved_self, call, great_start, generated_data,
                   ext_log, result>>

\* lines 141-142: the loop is left and the first n_samples rows returned
SampleReturn ==
    /\ pc = "sample_loop"
    /\ ~LoopContinues(call.n_samples, df_gen)
    /\ result' = HeadRows(df_gen, call.n_samples)
    /\ pc' = "idle"
    /\ outcome' = "returned"
    /\ df_gen' = EmptyFrame(PyNone)
    /\ UNCHANGED <<self, disk, saved_self, call, error, great_start,
                   draws, gens, valid_seen, generated_data, ext_log>>

\* lines 158-160: great_sample(starting_prompts) up to the head of its loop
GreatSampleCall ==
    /\ pc = "idle"
    /\ \E starting_prompts \in PromptArgs :
          call' = [NoCall EXCEPT !.op = "great_sample",
                                 !.starting_prompts = starting_prompts]
    /\ pc' = "great_sample_loop"
    /\ outcome' = "none"
    /\ error' = ""
    /\ ext_log' = <<>>
    /\ result' = EmptyFrame(PyNone)
    /\ ClearSampling
    /\ UNCHANGED <<self, disk, saved_self>>

\* lines 163-169: the next prompt is tokenized and one continuation generated
GreatSampleGenerate ==
    /\ pc = "great_sample_loop"
    /\ Len(generated_data) < Len(NormalizePrompts(call.starting_prompts))
    /\ \E text \in Texts :
          generated_data' = Append(generated_data, text)
    /\ ext_log' = Append(ext_log,
          ExternalCall("generate",
                       NormalizePrompts(call.starting_prompts)[Len(generated_data) + 1]))
    /\ UNCHANGED <<self, disk, saved_self, pc, call, outcome, error, great_start,
                   df_gen, draws, gens, valid_seen, result>>

\* lines 172-175: every generated text decoded into the returned frame
GreatSampleReturn ==
    /\ pc = "great_sample_loop"
    /\ Len(generated_data) = Len(NormalizePrompts(call.starting_prompts))
    /\ result' = ConvertTextToTabularData(generated_data, EmptyFrame(self.columns))
    /\ pc' = "idle"
    /\ outcome' = "returned"
    /\ UNCHANGED <<self, disk, saved_self, call, error, great_start,
                   df_gen, draws, gens, valid_seen, generated_data, ext_log>>

\* lines 177-200: save(path)
Save ==
    /\ pc = "idle"
    /\ call' = [NoCall EXCEPT !.op = "save"]
    /\ disk' = [exists |-> TRUE, config |-> SaveAttributes(self)]
    /\ saved_self' = self
    /\ outcome' = "returned"
    /\ error' = ""
    /\ ext_log' = <<>>
    /\ result' = EmptyFrame(PyNone)
    /\ ClearSampling
    /\ UNCHANGED <<self, pc>>

\* lines 208-229: load_from_dir(path); the caller goes on with the loaded
\* instance
LoadFromDir ==
    /\ pc = "idle"
    /\ call' = [NoCall EXCEPT !.op = "load_from_dir"]
    /\ IF disk.exists
       THEN /\ self' = LoadAttributes(disk.config)
            /\ outcome' = "returned"
            /\ error' = ""
       ELSE /\ self' = self
            /\ outcome' = "raised"
            /\ error' = "AssertionError"
    /\ ext_log' = <<>>
    /\ result' = EmptyFrame(PyNone)
    /\ ClearSampling
    /\ UNCHANGED <<disk, saved_self, pc>>

Next ==
    \/ Fit
    \/ SampleCall
    \/ SampleIteration
    \/ SampleReturn
    \/ GreatSampleCall
    \/ GreatSampleGenerate
    \/ GreatSampleReturn
    \/ Save
    \/ LoadFromDir

Spec == Init /\ [][Next]_vars

(***************************************************************************)
(* Properties.                                                             *)
(***************************************************************************)
\* the instance holds a Column Set and a Numeric Column Subset
Configured(s) == s.columns.t = "list" /\ s.num_cols.t = "list"

\* C1: whenever sample(n) on a fitted instance returns, the returned table
\* has exactly n rows, and every row has a value in every column of the
\* Column Set and a numerically parseable value in every numeric column.
C1_QuotaAndValidity ==
    (call.op = "sample" /\ outcome = "returned" /\ Configured(self))
    => /\ Len(result.rows) = call.n_samples
       /\ result.columns = [i \in 1..Len(self.columns.items) |-> self.columns.items[i].v]
       /\ \A r \in 1..Len(result.rows) :
             RowAccepted(result.rows[r], result.columns, self.num_cols.items)

\* C1 witness: two rows asked for and returned after at least one generation
C1_Witness ==
    /\ call.op = "sample" /\ outcome = "returned" /\ Configured(self)
    /\ call.n_samples = 2 /\ Len(result.rows) = 2 /\ gens >= 1

\* exactly one of start column and start distribution is supplied
OneSidedStartArgs ==
    \/ call.start_col \notin {PyNone, PyStr("")} /\ call.start_col_dist = PyNone
    \/ call.start_col_dist # PyNone /\ call.start_col \in {PyNone, PyStr("")}

\* C2: sample with exactly one of start column and start distribution
\* supplied raises ValueError, and does so before any start prompt is drawn
\* and before any generation call.
C2_OneSidedStartRaises ==
    (call.op = "sample" /\ OneSidedStartArgs)
    => /\ outcome = "raised" /\ error = "ValueError" /\ pc = "idle"
       /\ great_start = NoSampler
       /\ draws = 0 /\ gens = 0

\* C2 witness: a distribution without a column, rejected
C2_Witness ==
    /\ call.op = "sample" /\ call.start_col = PyStr("")
    /\ call.start_col_dist.t = "list"
    /\ outcome = "raised" /\ error = "ValueError"

\* C3: with start column and start distribution both unset the sampler is
\* built from the fitted Conditional Column and Conditional Distribution
\* (CategoricalStart for a mapping, ContinuousStart for a sequence), and on
\* an instance without a Conditional Distribution it is a RandomStart over
\* the Column Set.
C3_DefaultStartSampler ==
    (call.op = "sample" /\ call.start_col \in {PyNone, PyStr("")}
        /\ call.start_col_dist = PyNone)
    => /\ error \notin {"ValueError", "AssertionError"}
       /\ IF self.conditional_col_dist.t = "dict"
          THEN great_start =
                  [kind |-> "CategoricalStart", start_col |-> self.conditional_col,
                   dist |-> self.conditional_col_dist, all_columns |-> PyNone]
          ELSE IF self.conditional_col_dist.t = "list"
          THEN great_start =
                  [kind |-> "ContinuousStart", start_col |-> self.conditional_col,
                   dist |-> self.conditional_col_dist, all_columns |-> PyNone]
          ELSE /\ self.conditional_col_dist = PyNone
               /\ great_start.kind = "RandomStart"
               /\ great_start.all_columns = self.columns

\* C3 witness: a default sample call on an instance fitted with a
\* continuous conditional column
C3_Witness ==
    /\ call.op = "sample" /\ call.start_col = PyStr("") /\ call.start_col_dist = PyNone
    /\ self.conditional_col_dist.t = "list"
    /\ great_start.kind = "ContinuousStart"

\* C4: load_from_dir after save yields an instance whose Column Set, Numeric
\* Column Subset, Conditional Column and Conditional Distribution equal
\* those of the saved instance, whatever the type of the category keys.
C4_SaveLoadRoundTrip ==
    (call.op = "load_from_dir" /\ outcome = "returned") => self = saved_self

\* the prompts of the last great_sample call, a single string being one
CallPrompts ==
    IF call.starting_prompts.t = "str" THEN <<call.starting_prompts>>
    ELSE call.starting_prompts.items

\* C5: great_sample makes exactly one generation call per prompt, in prompt
\* order, and returns the decoded row of every generated text, rows that
\* sample would reject included.
C5_GreatSampleOnePerPrompt ==
    (call.op = "great_sample" /\ outcome = "returned")
    => /\ ext_log = [i \in 1..Len(CallPrompts) |-> ExternalCall("generate", CallPrompts[i])]
       /\ Len(generated_data) = Len(CallPrompts)
       /\ result.rows = [i \in 1..Len(CallPrompts) |->
                            DecodeText(generated_data[i], result.columns)]

\* C5 witness: two prompts, two rows returned, one of which sample would
\* have dropped
C5_Witness ==
    /\ call.op = "great_sample" /\ outcome = "returned" /\ Configured(self)
    /\ call.starting_prompts.t = "list" /\ Len(call.starting_prompts.items) = 2
    /\ Len(result.rows) = 2
    /\ \E r \in 1..2 : ~RowAccepted(result.rows[r], result.columns, self.num_cols.items)

\* C6: as long as every text generated in a sample(n) call, n >= 1, on a
\* configured instance decodes to a row that fails validation, the call has
\* neither returned nor raised, its table is empty and the loop goes on.
C6_NoExitWithoutValidRows ==
    (call.op = "sample" /\ call.n_samples >= 1 /\ Configured(self)
        /\ gens >= 1 /\ ~valid_seen)
    => /\ pc = "sample_loop" /\ outcome = "none" /\ error = ""
       /\ df_gen.rows = <<>>
       /\ LoopContinues(call.n_samples, df_gen)
       /\ CanDraw(great_start)

\* C6 witness: the loop after as many all-invalid passes as are counted
C6_Witness ==
    /\ call.op = "sample" /\ call.n_samples >= 1 /\ Configured(self)
    /\ gens = CounterCap /\ draws = CounterCap /\ ~valid_seen
    /\ pc = "sample_loop"

\* the conditional_col of the last fit call is not a string, or is a string
\* that is no column of the data
InvalidConditionalCol ==
    \/ call.conditional_col.t \notin {"NoneType", "str"}
    \/ /\ call.conditional_col.t = "str"
       /\ \A i \in 1..Len(call.data.columns) : call.data.columns[i] # call.conditional_col.v

\* C7: fit with an invalid conditional column raises, and neither builds the
\* dataset nor invokes the trainer.
C7_FitFailsFast ==
    (call.op = "fit" /\ InvalidConditionalCol)
    => /\ outcome = "raised" /\ error = "AssertionError"
       /\ ext_log = <<>>

\* C7 witness: a string that is no column of the data, rejected
C7_Witness ==
    /\ call.op = "fit" /\ call.conditional_col = PyStr("sex")
    /\ call.data = TableB
    /\ outcome = "raised"

\* C8: no step of sample, great_sample or save changes the Column Set, the
\* Numeric Column Subset, the Conditional Column or the Conditional
\* Distribution.
C8_ConfigurationFrame ==
    [][call'.op \in {"sample", "great_sample", "save"} => self' = self]_vars

\* C8 witness: a sample call with both overrides, naming another column
\* than the fitted Conditional Column, has returned
C8_Witness ==
    /\ call.op = "sample" /\ outcome = "returned" /\ gens >= 1
    /\ call.start_col = PyStr("age") /\ call.start_col_dist.t = "dict"
    /\ Len(call.start_col_dist.items) > 0
    /\ self.conditional_col = PyStr("income")

\* C9: with a start column and a start distribution (mapping or sequence,
\* empty ones included) both supplied, the sampler is built from the
\* supplied column and the supplied distribution.
C9_SuppliedStartUsed ==
    (call.op = "sample" /\ call.start_col.t = "str" /\ call.start_col.v # ""
        /\ call.start_col_dist.t \in {"dict", "list"})
    => /\ great_start.kind =
             (IF call.start_col_dist.t = "dict" THEN "CategoricalStart"
              ELSE "ContinuousStart")
       /\ great_start.start_col = call.start_col
       /\ great_start.dist = call.start_col_dist

\* C10: a fit call that fails on its conditional column leaves the Column
\* Set, the Numeric Column Subset, the Conditional Column and the
\* Conditional Distribution as they were.
C10_FailedFitChangesNothing ==
    [][(call'.op = "fit" /\ outcome' = "raised") => self' = self]_vars

====
